---- MODULE Spec2Model ----
(***************************************************************************)
(* State-machine model of src/bin/pg_dump/compress_io.c: the write session *)
(* AllocateCompressor / WriteDataToArchive / EndCompressor and the single  *)
(* read call ReadDataFromArchive, for the algorithms COMPR_ALG_NONE and    *)
(* COMPR_ALG_LIBZ.  zlib is an external library: deflate and inflate are   *)
(* modelled by their contract (input consumed, output produced, result     *)
(* code) with the amounts left nondeterministic.  die_horribly ends the    *)
(* process: the model moves to pc = "dead" and no action is enabled.       *)
(***************************************************************************)
EXTENDS Integers, Sequences, FiniteSets

(* ------------------------------ bounds --------------------------------- *)

\* Plain bytes are 0 .. NByte-1 (a byte has 256 values in the program).
NByte == 2

\* Longest data argument of one WriteDataToArchive call.
MaxLen == 2

\* Most WriteDataToArchive calls in one session.
MaxWrites == 2

\* Hints tried below Z_DEFAULT_COMPRESSION and above 9.
HintSlack == 2

\* Capacity of the staging buffer zlibOut (4096 in the program, scaled down).
ZLIB_OUT_SIZE == 2

\* Bytes in an archive that is given to the read call as found.
MaxWire == 4

\* Chunks readF splits such an archive into.
MaxChunks == 3

(* ----------------------------- constants ------------------------------- *)

Z_DEFAULT_COMPRESSION == -1

Byte == 0 .. (NByte - 1)

Hints == (Z_DEFAULT_COMPRESSION - HintSlack) .. (9 + HintSlack)

\* Every data argument a Write call may be given (the empty one included).
DataArgs == UNION {[1 .. n -> Byte] : n \in 0 .. MaxLen}

(* ------------------------------ helpers -------------------------------- *)

Take(s, n) == SubSeq(s, 1, n)

Drop(s, n) == SubSeq(s, n + 1, Len(s))

Min(a, b) == IF a < b THEN a ELSE b

RECURSIVE Flatten(_)
Flatten(chunks) ==
    IF chunks = <<>> THEN <<>> ELSE Head(chunks) \o Flatten(Tail(chunks))

(* ------------------------- the zlib stream format ---------------------- *)
(* A compressed stream is a header, one code per plain byte, a trailer.    *)
(* The code of a byte is not the byte, and header and trailer are not      *)
(* codes, so a stream differs from its plain text in content and length.   *)

Z_HEADER == NByte

Z_TRAILER == NByte + 1

\* A stream header that names a preset dictionary (FDICT and the id).
Z_DICT_HEADER == NByte + 2

EncByte(b) == (b + 1) % NByte

DecByte(c) == (c + NByte - 1) % NByte

Encode(s) == [i \in 1 .. Len(s) |-> EncByte(s[i])]

(* ------------------------------- state --------------------------------- *)

VARIABLES
    haveLibz,   \* the build: HAVE_LIBZ defined or not
    pc,         \* where the single thread is
    err,        \* "none", or the fatal condition die_horribly reported
    cs,         \* the CompressorState: "null", "live" or "freed"
    comprAlg,   \* cs->comprAlg
    zp,         \* cs->zp: next_in, avail_in, next_out (offset), avail_out
    zlibOut,    \* the staging buffer cs->zlibOut, cell by cell
    dstate,     \* zlib's internal deflate state
    flush,      \* DeflateCompressorZlib's flush argument
    res,        \* DeflateCompressorZlib's / ReadDataFromArchiveZlib's res
    dLen,       \* last WriteDataToArchive: its dLen argument
    ret,        \* last WriteDataToArchive: its return value (-1: none yet)
    nWrites,    \* WriteDataToArchive calls so far
    hintW,      \* the compression argument AllocateCompressor was given
    level,      \* AllocateCompressor's level
    archive,    \* every chunk writeF was called with, in order
    wres,       \* what the last writeF call returned (-1: never called)
    src,        \* all data given to WriteDataToArchive, concatenated
    produced,   \* all bytes deflate stored into zlibOut, in order
    allocs,     \* per resource: times acquired
    frees,      \* per resource: times released
    alg,        \* ReadDataFromArchive's alg ("unset": not called yet)
    rzp,        \* ReadDataFromArchiveZlib's zp: the same four fields
    out,        \* ReadDataFromArchiveZlib's out buffer, cell by cell
    istate,     \* zlib's internal inflate state
    rres,       \* ReadDataFromArchiveZlib's res
    nRead,      \* readF calls so far in this read
    sink,       \* every byte handed to ahwrite, in order
    rdone,      \* ReadDataFromArchive has returned
    iproduced,  \* all bytes inflate stored into out, in order
    tick        \* flips on every call of inflate

vars == <<haveLibz, pc, err, cs, comprAlg, zp, zlibOut, dstate, flush, res,
          dLen, ret, nWrites, hintW, archive, wres, src, produced, allocs,
          frees, level, alg, rzp, out, istate, rres, nRead, sink, rdone,
          iproduced, tick>>

\* What the write session touches, and what the read call touches.
wvars == <<cs, comprAlg, zp, zlibOut, dstate, flush, res, dLen, ret, nWrites,
           hintW, level, archive, wres, src, produced>>

rvars == <<alg, rzp, out, istate, rres, nRead, sink, rdone, iproduced,
           tick>>

WriteResources == {"cs", "zp", "zlibOut", "deflate"}

ReadResources == {"buf", "out", "rzp", "inflate"}

Resources == WriteResources \cup ReadResources

\* A cell of malloc'ed memory nothing has stored into yet.
Uninit == -1

\* malloc(ZLIB_OUT_SIZE + 1): one cell more than zlib is told about.
FreshBuffer == [i \in 1 .. (ZLIB_OUT_SIZE + 1) |-> Uninit]

NoZp == [next_in |-> <<>>, avail_in |-> 0, next_out |-> 0, avail_out |-> 0]

NoDstate == [status |-> "none", level |-> 0, pending |-> <<>>]

NoIstate == [mode |-> "none", pending |-> <<>>, window |-> FALSE]

\* The state before any call, the archive apart.
Idle ==
    /\ haveLibz \in BOOLEAN
    /\ pc = "idle"
    /\ err = "none"
    /\ cs = "null"
    /\ comprAlg = "unset"
    /\ zp = NoZp
    /\ zlibOut = FreshBuffer
    /\ dstate = NoDstate
    /\ flush = FALSE
    /\ res = "Z_OK"
    /\ dLen = 0
    /\ ret = -1
    /\ nWrites = 0
    /\ hintW = 0
    /\ level = 0
    /\ wres = -1
    /\ src = <<>>
    /\ produced = <<>>
    /\ allocs = [r \in Resources |-> 0]
    /\ frees = [r \in Resources |-> 0]
    /\ alg = "unset"
    /\ rzp = NoZp
    /\ out = FreshBuffer
    /\ istate = NoIstate
    /\ rres = "Z_OK"
    /\ nRead = 0
    /\ sink = <<>>
    /\ rdone = FALSE
    /\ iproduced = <<>>
    /\ tick = FALSE

\* Nothing has been written yet.
Init == Idle /\ archive = <<>>

(* --------------------------- fatal conditions -------------------------- *)

\* die_horribly(...): the process ends here, whatever it still holds.
Die(kind) ==
    /\ pc' = "dead"
    /\ err' = kind

Acquire(held, rs) == [r \in Resources |-> IF r \in rs THEN held[r] + 1 ELSE held[r]]

(* --------------------------- algorithm selector ------------------------ *)

\* Faulty variant: 0 is taken for a zlib level.
ParseCompressionOption_zeroIsLibz(compression) ==
    IF compression = Z_DEFAULT_COMPRESSION
          \/ (compression >= 0 /\ compression <= 9)
    THEN [ok |-> TRUE, alg |-> "COMPR_ALG_LIBZ", level |-> compression]
    ELSE [ok |-> FALSE, alg |-> "invalid", level |-> compression]

\* Faulty variant: the range test has no upper end.
ParseCompressionOption_noUpperEnd(compression) ==
    IF compression = Z_DEFAULT_COMPRESSION \/ compression > 0
    THEN [ok |-> TRUE, alg |-> "COMPR_ALG_LIBZ", level |-> compression]
    ELSE IF compression = 0
    THEN [ok |-> TRUE, alg |-> "COMPR_ALG_NONE", level |-> compression]
    ELSE [ok |-> FALSE, alg |-> "invalid", level |-> compression]

\* ParseCompressionOption: ok = FALSE is the die_horribly branch.
ParseCompressionOption(compression) ==
    IF compression = Z_DEFAULT_COMPRESSION
          \/ (compression > 0 /\ compression <= 9)
    THEN [ok |-> TRUE, alg |-> "COMPR_ALG_LIBZ", level |-> compression]
    ELSE IF compression = 0
    THEN [ok |-> TRUE, alg |-> "COMPR_ALG_NONE", level |-> compression]
    ELSE [ok |-> FALSE, alg |-> "invalid", level |-> compression]

(* ------------------------------ zlib: deflate -------------------------- *)

\* deflateInit(zp, level): the stream starts with its header still to emit.
deflateInit(lvl) ==
    [status |-> "busy", level |-> lvl, pending |-> <<Z_HEADER>>]

\* One outcome of deflate(zp, flush ? Z_FINISH : Z_NO_FLUSH) that takes k input
\* bytes and stores m bytes at next_out.  With Z_FINISH the trailer follows the
\* last input byte.  The call that stores the last byte of the stream answers
\* Z_STREAM_END when e holds; when it does not, it answers Z_OK and the next
\* call, which finds nothing to take and nothing to store, answers
\* Z_STREAM_END.
deflateOutcome(z, d, fl, k, m, e) ==
    LET finishing == fl /\ k = z.avail_in
        pend == d.pending \o Encode(Take(z.next_in, k))
                  \o (IF finishing /\ d.status # "finish"
                      THEN <<Z_TRAILER>> ELSE <<>>)
        status == IF finishing THEN "finish" ELSE d.status
    IN  [res |-> IF status = "finish" /\ m = Len(pend) /\ e THEN "Z_STREAM_END"
                 ELSE IF k = 0 /\ m = 0 THEN "Z_BUF_ERROR"
                 ELSE "Z_OK",
         k |-> k,
         out |-> Take(pend, m),
         d |-> [d EXCEPT !.status = status, !.pending = Drop(pend, m)]]

\* Most bytes a call that takes k input bytes can store.
deflateRoom(z, d, fl, k) ==
    Min(z.avail_out,
        Len(d.pending) + k
          + (IF fl /\ k = z.avail_in /\ d.status # "finish" THEN 1 ELSE 0))

\* Whether a call that stores m bytes may report the end of the stream it
\* completes: it does when room is left in the buffer, and it may or may not
\* when the bytes it stores fill the buffer.
deflateEnds(z, m) == IF m > 0 /\ m = z.avail_out THEN BOOLEAN ELSE {TRUE}

\* Everything deflate may do on one call: any amount of input taken, any
\* amount of pending output stored, or Z_STREAM_ERROR with nothing changed.
deflate(z, d, fl) ==
    {[res |-> "Z_STREAM_ERROR", k |-> 0, out |-> <<>>, d |-> d]}
    \cup (IF d.status = "busy" \/ (d.status = "finish" /\ fl)
          THEN UNION {UNION {{deflateOutcome(z, d, fl, k, m, e) :
                                 e \in deflateEnds(z, m)} :
                             m \in 0 .. deflateRoom(z, d, fl, k)} :
                      k \in 0 .. z.avail_in}
          ELSE {})

\* deflateEnd(zp): Z_OK, or an error that has (Z_DATA_ERROR) or has not
\* (Z_STREAM_ERROR) released zlib's state.
deflateEndResults == {"Z_OK", "Z_DATA_ERROR", "Z_STREAM_ERROR"}

(* ------------------------------ callbacks ------------------------------ *)

\* What cs->writeF(AH, buf, len) may return: len, or less (a short write).
WriteFResults(len) == {len} \cup (IF len > 0 THEN {len - 1} ELSE {})

(* ------------------------------ write path ----------------------------- *)

\* Faulty variant: the output is not primed.
PrimeOut_skipped(z) == z

\* InitCompressorZlib lines 205-207: next_out = zlibOut, avail_out = zlibOutSize.
PrimeOut(z) == [z EXCEPT !.next_out = 0, !.avail_out = ZLIB_OUT_SIZE]

\* Faulty variant: a build without zlib takes every algorithm.
Unsupported_never(a) == FALSE

\* The #ifndef HAVE_LIBZ arms, lines 91-94, 126-132 and 145-150: the
\* algorithm is zlib's and the build has no zlib.
Unsupported(a) == a = "COMPR_ALG_LIBZ" /\ ~haveLibz

\* AllocateCompressor(compression, writeF), with InitCompressorZlib inlined.
\* fail names the allocation or initialisation that fails, if any.
\* A run holds one write session, and it comes before the read call.
AllocateCompressor(compression, fail) ==
    LET p == ParseCompressionOption(compression)
        libz == p.alg = "COMPR_ALG_LIBZ"
    IN  /\ pc = "idle"
        /\ cs = "null"
        /\ alg = "unset"
        /\ hintW' = compression
        /\ level' = IF p.ok THEN p.level ELSE level
        /\ IF ~p.ok
           THEN /\ Die("InvalidConfiguration")
                /\ UNCHANGED <<cs, comprAlg, zp, zlibOut, dstate, allocs>>
           ELSE IF Unsupported(p.alg)
           THEN /\ Die("UnsupportedAlgorithm")
                /\ UNCHANGED <<cs, comprAlg, zp, zlibOut, dstate, allocs>>
           ELSE IF fail = "cs"
           THEN /\ Die("OutOfMemory")
                /\ UNCHANGED <<cs, comprAlg, zp, zlibOut, dstate, allocs>>
           ELSE IF ~libz
           THEN /\ fail = "none"
                /\ cs' = "live"
                /\ comprAlg' = p.alg
                /\ allocs' = Acquire(allocs, {"cs"})
                /\ UNCHANGED <<pc, err, zp, zlibOut, dstate>>
           ELSE /\ cs' = "live"
                /\ comprAlg' = p.alg
                /\ CASE fail = "zp" ->
                          /\ Die("OutOfMemory")
                          /\ allocs' = Acquire(allocs, {"cs"})
                          /\ UNCHANGED <<zp, zlibOut, dstate>>
                     [] fail = "zlibOut" ->
                          /\ Die("OutOfMemory")
                          /\ allocs' = Acquire(allocs, {"cs", "zp"})
                          /\ UNCHANGED <<zp, zlibOut, dstate>>
                     [] fail = "deflateInit" ->
                          /\ Die("CodecInitFailure")
                          /\ allocs' = Acquire(allocs, {"cs", "zp", "zlibOut"})
                          /\ UNCHANGED <<zp, zlibOut, dstate>>
                     [] fail = "none" ->
                          /\ dstate' = deflateInit(level')
                          /\ zp' = PrimeOut(zp)
                          /\ zlibOut' = FreshBuffer
                          /\ allocs' = Acquire(allocs, WriteResources)
                          /\ UNCHANGED <<pc, err>>
        /\ UNCHANGED <<haveLibz, flush, res, dLen, ret, nWrites, archive, wres,
                       src, produced, frees, rvars>>

\* Faulty variant: the loop does not look at the input that is left.
LoopCond_flushOnly(z, fl) == fl

\* The while test of DeflateCompressorZlib, line 236.
LoopCond(z, fl) == z.avail_in # 0 \/ fl

\* Faulty variant: a finishing call does not flush a partly filled buffer.
NeedFlush_noFinal(z, fl) == z.avail_out = 0 \/ z.avail_in # 0

\* Faulty variant: a full buffer alone does not cause a flush.
NeedFlush_noFull(z, fl) ==
    \/ (fl /\ z.avail_out < ZLIB_OUT_SIZE)
    \/ z.avail_in # 0

\* The flush test, lines 242-245.
NeedFlush(z, fl) ==
    \/ (fl /\ z.avail_out < ZLIB_OUT_SIZE)
    \/ z.avail_out = 0
    \/ z.avail_in # 0

\* Faulty variant: the zero-length guard is gone.
HasOutput_always(z) == TRUE

\* The zero-length guard, line 252.
HasOutput(z) == z.avail_out < ZLIB_OUT_SIZE

\* Faulty variant: the whole buffer is written, whatever it holds.
StagedLen_wholeBuffer(z) == ZLIB_OUT_SIZE

\* len, line 258.
StagedLen(z) == ZLIB_OUT_SIZE - z.avail_out

\* Faulty variant: the value writeF returns is not looked at.
WriteFailed_never(r, len) == FALSE

\* The short-write tests, lines 259 and 396.
WriteFailed(r, len) == r # len

\* Lines 264-265.
ResetOut(z) == [z EXCEPT !.next_out = 0, !.avail_out = ZLIB_OUT_SIZE]

\* Faulty variant: the loop does not stop when the stream has ended.
StreamEnded_never(r) == FALSE

\* Line 268: if (res == Z_STREAM_END) break.
StreamEnded(r) == r = "Z_STREAM_END"

\* The first len cells of a buffer: what writeF(AH, out, len) is handed.
Cells(buf, len) == [i \in 1 .. len |-> buf[i]]

\* deflate stores bytes at next_out.
Store(buf, at, bytes) ==
    [i \in DOMAIN buf |->
        IF at < i /\ i <= at + Len(bytes) THEN bytes[i - at] ELSE buf[i]]

\* Faulty variant: the last byte of data is not written.
WriteDataToArchiveNone_dropsLast(data) ==
    \E r \in WriteFResults(Len(data)) :
        /\ archive' = Append(archive, Take(data, Len(data) - 1))
        /\ wres' = r
        /\ IF WriteFailed(r, Len(data))
           THEN Die("DownstreamWriteFailure") /\ UNCHANGED ret
           ELSE ret' = Len(data) /\ UNCHANGED <<pc, err>>
        /\ UNCHANGED <<zp, flush>>

\* WriteDataToArchiveNone(AH, cs, data, dLen).
WriteDataToArchiveNone(data) ==
    \E r \in WriteFResults(Len(data)) :
        /\ archive' = Append(archive, data)
        /\ wres' = r
        /\ IF WriteFailed(r, Len(data))
           THEN Die("DownstreamWriteFailure") /\ UNCHANGED ret
           ELSE ret' = Len(data) /\ UNCHANGED <<pc, err>>
        /\ UNCHANGED <<zp, flush>>

\* WriteDataToArchiveZlib(AH, cs, data, dLen) up to the first loop test of
\* DeflateCompressorZlib(AH, cs, false).
WriteDataToArchiveZlib(data) ==
    LET z == [zp EXCEPT !.next_in = data, !.avail_in = Len(data)]
    IN  /\ zp' = z
        /\ flush' = FALSE
        /\ IF LoopCond(z, FALSE)
           THEN pc' = "deflate" /\ UNCHANGED <<err, ret>>
           ELSE ret' = Len(data) /\ UNCHANGED <<pc, err>>
        /\ UNCHANGED <<archive, wres>>

\* WriteDataToArchive(AH, cs, data, dLen): the switch on cs->comprAlg.
WriteDataToArchive(data) ==
    /\ pc = "idle"
    /\ cs = "live"
    /\ nWrites < MaxWrites
    /\ nWrites' = nWrites + 1
    /\ dLen' = Len(data)
    /\ src' = src \o data
    /\ IF Unsupported(comprAlg)
       THEN /\ Die("UnsupportedAlgorithm")
            /\ UNCHANGED <<zp, flush, ret, archive, wres>>
       ELSE IF comprAlg = "COMPR_ALG_LIBZ"
       THEN WriteDataToArchiveZlib(data)
       ELSE WriteDataToArchiveNone(data)
    /\ UNCHANGED <<haveLibz, cs, comprAlg, zlibOut, dstate, res, hintW, level,
                   produced, allocs, frees, rvars>>

\* One iteration of the loop of DeflateCompressorZlib, lines 236-270, and the
\* return to WriteDataToArchiveZlib (line 282) when the loop ends there.
DeflateCompressorZlib ==
    /\ pc = "deflate"
    /\ \E o \in deflate(zp, dstate, flush) :
        LET z1 == [zp EXCEPT !.next_in = Drop(@, o.k),
                             !.avail_in = @ - o.k,
                             !.next_out = @ + Len(o.out),
                             !.avail_out = @ - Len(o.out)]
            buf1 == Store(zlibOut, zp.next_out, o.out)
            bad == o.res = "Z_STREAM_ERROR"
            doFlush == ~bad /\ NeedFlush(z1, flush)
            doWrite == doFlush /\ HasOutput(z1)
            len == StagedLen(z1)
            z2 == IF doFlush THEN ResetOut(z1) ELSE z1
        IN  \E r \in (IF doWrite THEN WriteFResults(len) ELSE {wres}) :
              LET short == doWrite /\ WriteFailed(r, len)
                  again == ~StreamEnded(o.res) /\ LoopCond(z2, flush)
              IN  /\ res' = o.res
                  /\ dstate' = o.d
                  /\ zlibOut' = buf1
                  /\ produced' = produced \o o.out
                  /\ wres' = r
                  /\ archive' = IF doWrite
                                THEN Append(archive, Cells(buf1, len))
                                ELSE archive
                  /\ IF bad
                     THEN Die("CodecError") /\ zp' = z1 /\ UNCHANGED ret
                     ELSE IF short
                     THEN Die("DownstreamWriteFailure") /\ zp' = z1
                            /\ UNCHANGED ret
                     ELSE /\ zp' = z2
                          /\ err' = err
                          /\ pc' = IF again THEN "deflate"
                                   ELSE IF flush THEN "deflateEnd" ELSE "idle"
                          /\ ret' = IF ~again /\ ~flush THEN dLen ELSE ret
    /\ UNCHANGED <<haveLibz, cs, comprAlg, flush, dLen, nWrites, hintW, level, src,
                   allocs, frees, rvars>>

\* Faulty variant: free(cs->zlibOut) is missing.
EndReleases_leak == {"deflate", "zp", "cs"}

\* What EndCompressorZlib releases (deflateEnd, lines 225-226) and then
\* EndCompressor (line 167).
EndReleases == {"deflate", "zlibOut", "zp", "cs"}

\* EndCompressor(AH, cs): for zlib, EndCompressorZlib up to the first loop
\* test of DeflateCompressorZlib(AH, cs, true); else free(cs).
EndCompressor ==
    /\ pc = "idle"
    /\ cs = "live"
    /\ IF haveLibz /\ comprAlg = "COMPR_ALG_LIBZ"
       THEN /\ zp' = [zp EXCEPT !.next_in = <<>>, !.avail_in = 0]
            /\ flush' = TRUE
            /\ pc' = "deflate"
            /\ UNCHANGED <<cs, frees>>
       ELSE /\ cs' = "freed"
            /\ frees' = Acquire(frees, {"cs"})
            /\ UNCHANGED <<zp, flush, pc>>
    /\ UNCHANGED <<haveLibz, err, comprAlg, zlibOut, dstate, res, dLen, ret,
                   nWrites, hintW, level, archive, wres, src, produced, allocs, rvars>>

\* EndCompressorZlib after the flush, lines 221-226, then free(cs), line 167.
EndCompressorZlib ==
    /\ pc = "deflateEnd"
    /\ \E e \in deflateEndResults :
        /\ dstate' = IF e = "Z_STREAM_ERROR" THEN dstate
                     ELSE [dstate EXCEPT !.status = "ended"]
        /\ IF e # "Z_OK"
           THEN /\ Die("CodecCloseFailure")
                /\ frees' = IF e = "Z_STREAM_ERROR" THEN frees
                            ELSE Acquire(frees, {"deflate"})
                /\ UNCHANGED cs
           ELSE /\ pc' = "idle"
                /\ cs' = "freed"
                /\ frees' = Acquire(frees, EndReleases)
                /\ UNCHANGED err
    /\ UNCHANGED <<haveLibz, comprAlg, zp, zlibOut, flush, res, dLen, ret,
                   nWrites, hintW, level, archive, wres, src, produced, allocs, rvars>>

(* ------------------------------ zlib: inflate -------------------------- *)

\* inflateInit(zp): the header is expected first; the window is allocated by
\* the first inflate call that stores output and leaves the stream open.
inflateInit == [mode |-> "head", pending |-> <<>>, window |-> FALSE]

\* inflate's decoder taking input bytes one at a time until the stream has
\* ended, the data is bad, a preset dictionary is asked for, or the input is
\* used up.
RECURSIVE Scan(_, _, _, _)
Scan(mode, bytes, used, plain) ==
    IF bytes = <<>> \/ mode \in {"done", "bad", "dict"}
    THEN [mode |-> mode, used |-> used, plain |-> plain]
    ELSE LET b == Head(bytes)
         IN  IF mode = "head"
             THEN Scan(IF b = Z_HEADER THEN "data"
                       ELSE IF b = Z_DICT_HEADER THEN "dict" ELSE "bad",
                       Tail(bytes), used + 1, plain)
             ELSE IF b \in Byte
             THEN Scan("data", Tail(bytes), used + 1, Append(plain, DecByte(b)))
             ELSE Scan(IF b = Z_TRAILER THEN "done" ELSE "bad",
                       Tail(bytes), used + 1, plain)

\* inflate allocates its window at the end of a call that has stored output
\* and leaves the decoder inside the data: not on a call that takes the
\* trailer, nor on one that finds the data bad.
NeedsWindow(s, mode, m) == ~s.window /\ m > 0 /\ mode = "data"

\* One outcome of inflate(zp, 0) that takes k input bytes and stores m bytes.
inflateOutcome(z, s, k, m) ==
    LET sc == Scan(s.mode, Take(z.next_in, k), 0, <<>>)
        pend == s.pending \o sc.plain
    IN  [res |-> IF sc.mode = "bad" THEN "Z_DATA_ERROR"
                 ELSE IF sc.mode = "dict" THEN "Z_NEED_DICT"
                 ELSE IF sc.mode = "done" /\ m = Len(pend) THEN "Z_STREAM_END"
                 ELSE IF k = 0 /\ m = 0 THEN "Z_BUF_ERROR"
                 ELSE "Z_OK",
         k |-> k,
         out |-> Take(pend, m),
         s |-> [mode |-> sc.mode, pending |-> Drop(pend, m),
                window |-> s.window \/ NeedsWindow(s, sc.mode, m)]]

\* The call of inflateOutcome(z, s, k, m) when the allocation of the window
\* fails: the input is taken, the output is stored, and Z_MEM_ERROR is the
\* answer.
inflateNoWindow(z, s, k, m) ==
    LET o == inflateOutcome(z, s, k, m)
    IN  [o EXCEPT !.res = "Z_MEM_ERROR",
                  !.s = [o.s EXCEPT !.mode = "mem", !.window = FALSE]]

\* The (k, m) inflate may choose: k input bytes it can take in this mode and
\* m decoded bytes that fit.
inflateChoices(z, s) ==
    {km \in (0 .. z.avail_in) \X (0 .. z.avail_out) :
        LET sc == Scan(s.mode, Take(z.next_in, km[1]), 0, <<>>)
        IN  sc.used = km[1] /\ km[2] <= Len(s.pending) + Len(sc.plain)}

\* The errors inflate may answer whatever the input holds: no memory for its
\* window, or a stream state it finds inconsistent.
inflateFaults == {"Z_MEM_ERROR", "Z_STREAM_ERROR"}

\* Everything inflate may do on one call.  It makes progress whenever it can:
\* Z_BUF_ERROR only when there is no input it can take and nothing to store.
\* A call that allocates the window may fail for want of memory.
\* Z_STREAM_ERROR leaves everything as it was.
inflate(z, s) ==
    LET all == inflateChoices(z, s)
        moving == {km \in all : km[1] + km[2] > 0}
        storing == {km \in all :
                       NeedsWindow(s, inflateOutcome(z, s, km[1], km[2]).s.mode,
                                   km[2])}
    IN  {inflateOutcome(z, s, km[1], km[2]) :
            km \in IF moving = {} THEN all ELSE moving}
        \cup {inflateNoWindow(z, s, km[1], km[2]) : km \in storing}
        \cup {[res |-> "Z_STREAM_ERROR", k |-> 0, out |-> <<>>, s |-> s]}

\* inflateEnd(zp).
inflateEndResults == {"Z_OK", "Z_STREAM_ERROR"}

(* ------------------------------- read path ----------------------------- *)

\* readF(AH, &buf, &buflen): the next chunk of the archive, or zero length
\* once the archive is used up.
ReadF(n) == IF n < Len(archive) THEN archive[n + 1] ELSE <<>>

\* Faulty variant: a chunk of one byte ends the loop like a chunk of none.
GotChunk_moreThanOne(cnt) == cnt > 1

\* The loop tests of lines 317 and 380: while ((cnt = readF(...))).
GotChunk(cnt) == cnt # 0

\* Faulty variant: inflate is called once per chunk.
MoreInput_never(z) == FALSE

\* The inner loop test of line 322: while (zp->avail_in > 0).
MoreInput(z) == z.avail_in > 0

\* Faulty variant: Z_BUF_ERROR passes for success.
InflateFailed_bufErrorOk(r) == r \notin {"Z_OK", "Z_STREAM_END", "Z_BUF_ERROR"}

\* Lines 328 and 344: res != Z_OK && res != Z_STREAM_END.
InflateFailed(r) == r # "Z_OK" /\ r # "Z_STREAM_END"

\* Faulty variant: the space is renewed, the position is not.
PrimeInflateOut_keepsPosition(z) == [z EXCEPT !.avail_out = ZLIB_OUT_SIZE]

\* Lines 324-325 and 341-342: zp->next_out = out, zp->avail_out = ZLIB_OUT_SIZE.
PrimeInflateOut(z) == [z EXCEPT !.next_out = 0, !.avail_out = ZLIB_OUT_SIZE]

ReadFailures == {"none", "rzp", "buf", "out", "inflateInit"}

\* ReadDataFromArchive(AH, compression, readF) up to the first loop test of
\* ReadDataFromArchiveNone or ReadDataFromArchiveZlib.
ReadDataFromArchive(compression, fail) ==
    LET p == ParseCompressionOption(compression)
    IN  /\ pc = "idle"
        /\ cs # "live"
        /\ alg = "unset"
        /\ alg' = p.alg
        /\ IF ~p.ok
           THEN /\ Die("InvalidConfiguration")
                /\ UNCHANGED <<allocs, rzp, out, istate>>
           ELSE IF Unsupported(p.alg)
           THEN /\ Die("UnsupportedAlgorithm")
                /\ UNCHANGED <<allocs, rzp, out, istate>>
           ELSE IF p.alg = "COMPR_ALG_NONE"
           THEN /\ fail \in {"none", "buf"}
                /\ IF fail = "buf"
                   THEN Die("OutOfMemory") /\ UNCHANGED allocs
                   ELSE /\ pc' = "readNone"
                        /\ allocs' = Acquire(allocs, {"buf"})
                        /\ UNCHANGED err
                /\ UNCHANGED <<rzp, out, istate>>
           ELSE CASE fail = "rzp" ->
                       /\ Die("OutOfMemory")
                       /\ UNCHANGED <<allocs, rzp, out, istate>>
                  [] fail = "buf" ->
                       /\ Die("OutOfMemory")
                       /\ allocs' = Acquire(allocs, {"rzp"})
                       /\ UNCHANGED <<rzp, out, istate>>
                  [] fail = "out" ->
                       /\ Die("OutOfMemory")
                       /\ allocs' = Acquire(allocs, {"rzp", "buf"})
                       /\ UNCHANGED <<rzp, out, istate>>
                  [] fail = "inflateInit" ->
                       /\ Die("CodecInitFailure")
                       /\ allocs' = Acquire(allocs, {"rzp", "buf", "out"})
                       /\ UNCHANGED <<rzp, out, istate>>
                  [] fail = "none" ->
                       /\ pc' = "readZlib"
                       /\ allocs' = Acquire(allocs, ReadResources)
                       /\ istate' = inflateInit
                       /\ out' = FreshBuffer
                       /\ UNCHANGED <<err, rzp>>
        /\ UNCHANGED <<haveLibz, frees, rres, nRead, sink, rdone, iproduced,
                       tick, wvars>>

\* One iteration of the loop of ReadDataFromArchiveNone, lines 380-383, or
\* its exit, free(buf) and the return.
ReadDataFromArchiveNone ==
    /\ pc = "readNone"
    /\ LET chunk == ReadF(nRead)
       IN  /\ nRead' = nRead + 1
           /\ IF GotChunk(Len(chunk))
              THEN /\ sink' = sink \o chunk
                   /\ UNCHANGED <<pc, frees, rdone>>
              ELSE /\ pc' = "idle"
                   /\ rdone' = TRUE
                   /\ frees' = Acquire(frees, {"buf"})
                   /\ UNCHANGED sink
    /\ UNCHANGED <<haveLibz, err, allocs, alg, rzp, out, istate, rres,
                   iproduced, tick, wvars>>

\* The outer loop test of ReadDataFromArchiveZlib, line 317: a chunk is read
\* and is the decompressor's input (lines 319-320), or the loop ends and
\* lines 337-339 follow.
ReadDataFromArchiveZlib ==
    /\ pc = "readZlib"
    /\ LET chunk == ReadF(nRead)
       IN  /\ nRead' = nRead + 1
           /\ rzp' = [rzp EXCEPT !.next_in = chunk, !.avail_in = Len(chunk)]
           /\ pc' = IF GotChunk(Len(chunk)) THEN "inflate"
                    ELSE IF rres # "Z_STREAM_END" THEN "drain"
                    ELSE "inflateEnd"
    /\ UNCHANGED <<haveLibz, err, allocs, frees, alg, out, istate, rres,
                   sink, rdone, iproduced, tick, wvars>>

\* The body both loops share, lines 324-333 and 341-349: prime the output,
\* inflate, fail on an error, terminate the output and pass it to ahwrite.
InflateAndForward(o) ==
    LET z0 == PrimeInflateOut(rzp)
        z1 == [z0 EXCEPT !.next_in = Drop(@, o.k),
                         !.avail_in = @ - o.k,
                         !.next_out = @ + Len(o.out),
                         !.avail_out = @ - Len(o.out)]
        n == ZLIB_OUT_SIZE - z1.avail_out
        stored == Store(out, z0.next_out, o.out)
        buf1 == [stored EXCEPT ![n + 1] = 0]
    IN  /\ rres' = o.res
        /\ iproduced' = iproduced \o o.out
        /\ tick' = ~tick
        /\ istate' = o.s
        /\ rzp' = z1
        /\ IF InflateFailed(o.res)
           THEN /\ Die("CodecError")
                /\ out' = stored
                /\ UNCHANGED sink
           ELSE /\ out' = buf1
                /\ sink' = sink \o Cells(buf1, n)
                /\ UNCHANGED err

\* One iteration of the inner loop of ReadDataFromArchiveZlib, lines 322-334.
InflateChunk ==
    /\ pc = "inflate"
    /\ \E o \in inflate(PrimeInflateOut(rzp), istate) :
        /\ InflateAndForward(o)
        /\ ~InflateFailed(o.res) =>
              pc' = IF MoreInput(rzp') THEN "inflate" ELSE "readZlib"
    /\ UNCHANGED <<haveLibz, allocs, frees, alg, nRead, rdone, wvars>>

\* One iteration of the drain loop of ReadDataFromArchiveZlib, lines 339-350.
InflateDrain ==
    /\ pc = "drain"
    /\ \E o \in inflate(PrimeInflateOut(rzp), istate) :
        /\ InflateAndForward(o)
        /\ ~InflateFailed(o.res) =>
              pc' = IF o.res # "Z_STREAM_END" THEN "drain" ELSE "inflateEnd"
    /\ UNCHANGED <<haveLibz, allocs, frees, alg, nRead, rdone, wvars>>

\* The end of ReadDataFromArchiveZlib, lines 352-358.
InflateEnd ==
    /\ pc = "inflateEnd"
    /\ \E e \in inflateEndResults :
        IF e # "Z_OK"
        THEN /\ Die("CodecCloseFailure")
             /\ UNCHANGED <<frees, istate, rdone>>
        ELSE /\ pc' = "idle"
             /\ rdone' = TRUE
             /\ istate' = [istate EXCEPT !.mode = "ended"]
             /\ frees' = Acquire(frees, ReadResources)
             /\ UNCHANGED err
    /\ UNCHANGED <<haveLibz, allocs, alg, rzp, out, rres, nRead, sink,
                   iproduced, tick, wvars>>

\* ReadDataFromArchive is given any hint, whatever the archive was written
\* with.
ReadHints == Hints

AllocFailures == {"none", "cs", "zp", "zlibOut", "deflateInit"}

Next ==
    \/ \E h \in Hints, f \in AllocFailures : AllocateCompressor(h, f)
    \/ \E d \in DataArgs : WriteDataToArchive(d)
    \/ DeflateCompressorZlib
    \/ EndCompressor
    \/ EndCompressorZlib
    \/ \E h \in ReadHints, f \in ReadFailures : ReadDataFromArchive(h, f)
    \/ ReadDataFromArchiveNone
    \/ ReadDataFromArchiveZlib
    \/ InflateChunk
    \/ InflateDrain
    \/ InflateEnd

(* ------------------------- the write session alone --------------------- *)

NextWrite ==
    \/ \E h \in Hints, f \in AllocFailures : AllocateCompressor(h, f)
    \/ \E d \in DataArgs : WriteDataToArchive(d)
    \/ DeflateCompressorZlib
    \/ EndCompressor
    \/ EndCompressorZlib

\* An iteration of the loop of DeflateCompressorZlib on which deflate took
\* input, stored output, or reported the end of the stream.
DeflateProgress ==
    /\ DeflateCompressorZlib
    /\ \/ zp'.avail_in < zp.avail_in
       \/ produced' # produced
       \/ res' = "Z_STREAM_END"

\* zlib does not refuse for ever to take input, to store output, or to
\* report the end of a stream it has stored whole.
SpecWriteFair == Init /\ [][NextWrite]_vars /\ WF_vars(DeflateProgress)

(* ----------------------- reading a given archive ---------------------- *)

\* What a byte of a compressed stream may be.
Wire == 0 .. (NByte + 2)

\* The sum of a sequence of lengths.
RECURSIVE Sum(_)
Sum(lens) == IF lens = <<>> THEN 0 ELSE Head(lens) + Sum(Tail(lens))

\* The bytes of payload cut into chunks of the given lengths.
Chop(payload, lens) ==
    [i \in 1 .. Len(lens) |->
        SubSeq(payload, Sum(Take(lens, i - 1)) + 1, Sum(Take(lens, i)))]

\* The lengths readF may return, one per call, zero included.
ChunkLengths ==
    {lens \in UNION {[1 .. n -> 0 .. MaxWire] : n \in 0 .. MaxChunks} :
        Sum(lens) <= MaxWire}

\* Every archive readF may present: any bytes, in any chunks.
ReadArchives ==
    UNION {{Chop(p, lens) : p \in [1 .. Sum(lens) -> Wire]} :
              lens \in ChunkLengths}

\* ReadDataFromArchive is called on an archive found on disk.
InitRead == Idle /\ archive \in ReadArchives

NextRead ==
    \/ \E h \in Hints, f \in ReadFailures : ReadDataFromArchive(h, f)
    \/ ReadDataFromArchiveNone
    \/ ReadDataFromArchiveZlib
    \/ InflateChunk
    \/ InflateDrain
    \/ InflateEnd

SpecRead == InitRead /\ [][NextRead]_vars

\* The hints of a read that is followed to its end: one outside the range,
\* the default level, and no compression.  The level plays no part in a read.
EndHints == {Z_DEFAULT_COMPRESSION - 1, Z_DEFAULT_COMPRESSION, 0}

NextReadToEnd ==
    \/ \E h \in EndHints, f \in ReadFailures : ReadDataFromArchive(h, f)
    \/ ReadDataFromArchiveNone
    \/ ReadDataFromArchiveZlib
    \/ InflateChunk
    \/ InflateDrain
    \/ InflateEnd

\* The read call is not suspended: a step it can take, it takes.
SpecReadFair == InitRead /\ [][NextReadToEnd]_vars /\ WF_vars(NextReadToEnd)

(* ------------------------------- properties ---------------------------- *)

IsLibz == comprAlg = "COMPR_ALG_LIBZ"

IsNone == comprAlg = "COMPR_ALG_NONE"

\* EndCompressor has returned.
Ended == pc = "idle" /\ cs = "freed"

\* The last writeF call returned less than it was asked to write.
LastShort == archive # <<>> /\ wres # Len(archive[Len(archive)])

AllChunksNonEmpty == \A i \in 1 .. Len(archive) : Len(archive[i]) > 0

\* C1: in a zlib session no flush cycle, in Write or in End, calls writeF with
\* zero bytes, whatever deflate consumed and stored on each call.
C1_DeflateNeverFlushesEmpty == IsLibz => AllChunksNonEmpty

\* C1 witness: a Write is in its loop after an iteration in which deflate took
\* input, stored nothing and left input over, so that the flush test held on
\* an empty staging buffer, and writeF has not been called.
C1_Witness ==
    /\ pc = "deflate" /\ ~flush /\ IsLibz
    /\ zp.avail_in # 0 /\ zp.avail_in < dLen
    /\ produced = <<>> /\ archive = <<>>

\* C2 (as claimed): for either algorithm and any Write arguments, the empty
\* one included, writeF is never called with zero bytes.
C2_NeverZeroLengthChunk == cs # "null" => AllChunksNonEmpty

\* The read call was given a hint that selects the algorithm of the session.
\* The hint of the session is such a hint, and ReadDataFromArchive keeps
\* nothing of its hint but the algorithm it selects, so a state reached with
\* any such hint is reached with the hint of the session.
SameAlgorithm == alg = comprAlg

\* C3 (as claimed): a session written with a hint in 0..9, whatever the Write
\* arguments were, and read back with the same hint hands ahwrite exactly the
\* bytes that were written.
C3_RoundTrip ==
    (Ended /\ rdone /\ hintW \in 0 .. 9 /\ SameAlgorithm) => sink = src

\* Where C3 does hold: every zlib session, and every none session in which
\* no chunk given to writeF is empty.
RoundTripDeflate ==
    (Ended /\ rdone /\ hintW \in 1 .. 9 /\ SameAlgorithm) => sink = src

RoundTripNoneNonEmpty ==
    (Ended /\ rdone /\ hintW = 0 /\ SameAlgorithm /\ AllChunksNonEmpty)
        => sink = src

\* C4: when EndCompressor returns for a zlib session deflate has reported
\* Z_STREAM_END and the chunks given to writeF, in order, are exactly the
\* bytes deflate stored, in order.
C4_EndDeliversAllProduced ==
    (IsLibz /\ (Ended \/ pc = "deflateEnd")) =>
        /\ res = "Z_STREAM_END"
        /\ Flatten(archive) = produced

\* C4 witness: a zlib session of two Writes has ended, deflate stored more
\* than the staging buffer holds, and the second chunk begins with a byte
\* that was staged before the call that flushed it.
C4_Witness ==
    /\ Ended /\ IsLibz /\ nWrites = MaxWrites
    /\ Len(produced) > ZLIB_OUT_SIZE
    /\ Len(archive) >= 2
    /\ Len(src) = Len(produced) - 2

\* C5: a zlib Write that returns returns its dLen, with no input left in zp.
C5_WriteAcceptsAll ==
    (pc = "idle" /\ cs = "live" /\ IsLibz /\ nWrites > 0) =>
        /\ ret = dLen
        /\ zp.avail_in = 0
        /\ zp.next_in = <<>>

\* C5 witness: a zlib Write of the longest argument has returned after at
\* least one flush cycle called writeF.
C5_Witness ==
    /\ pc = "idle" /\ cs = "live" /\ IsLibz
    /\ nWrites = 1 /\ dLen = MaxLen /\ ret = MaxLen
    /\ archive # <<>>

\* C6: a writeF call that returns another length than it was asked to write
\* ends the session with DownstreamWriteFailure at that call, and writeF is
\* not called after it.
C6_ShortWriteIsFatal ==
    [][/\ LastShort' => (pc' = "dead" /\ err' = "DownstreamWriteFailure")
       /\ LastShort => archive' = archive]_vars

\* C6 witness: a short write in a flush cycle of EndCompressor, after an
\* earlier chunk was written in full.
C6_Witness ==
    /\ pc = "dead" /\ err = "DownstreamWriteFailure"
    /\ flush /\ LastShort /\ Len(archive) >= 2

\* The write session's own allocations (not zlib's state).
OwnWrite == {"cs", "zp", "zlibOut"}

OwnRead == {"buf", "out", "rzp"}

\* The fatal exits the claim names: a flush that fails, a codec error, a
\* codec teardown error.
NamedFailures == {"DownstreamWriteFailure", "CodecError", "CodecCloseFailure"}

\* C7 (as claimed): when EndCompressor or ReadDataFromArchive has returned,
\* and when the process has ended on one of the named failures, every
\* resource that was acquired has been released exactly once.
C7_ReleasedOnEveryExit ==
    /\ Ended => \A r \in WriteResources : frees[r] = allocs[r]
    /\ rdone => \A r \in ReadResources : frees[r] = allocs[r]
    /\ (pc = "dead" /\ err \in NamedFailures) =>
          \A r \in Resources : frees[r] = allocs[r]

\* C7 (amended): nothing is released twice; when EndCompressor or
\* ReadDataFromArchive returns, everything the call acquired has been
\* released once; when die_horribly ends the process inside the session or
\* the read call, the buffers, the stream structure and the context it
\* acquired are still unreleased.
C7_ReleasedOnNormalExit ==
    /\ \A r \in Resources : frees[r] <= allocs[r] /\ allocs[r] <= 1
    /\ Ended => \A r \in WriteResources : frees[r] = allocs[r]
    /\ rdone => \A r \in ReadResources : frees[r] = allocs[r]
    /\ (pc = "dead" /\ cs = "live") => \A r \in OwnWrite : frees[r] = 0
    /\ (pc = "dead" /\ alg # "unset") => \A r \in OwnRead : frees[r] = 0

\* C7 witness: a zlib session has ended and been read back, and each of the
\* eight resources was acquired once and released once.
C7_Witness ==
    /\ Ended /\ rdone /\ IsLibz /\ alg = "COMPR_ALG_LIBZ"
    /\ \A r \in Resources : allocs[r] = 1 /\ frees[r] = 1

\* C8: in a session with no Write, for none writeF is never called; for zlib
\* the first deflate call is a Z_FINISH call on an empty staging buffer of
\* full capacity, and when EndCompressor returns deflate has reported
\* Z_STREAM_END and writeF was given exactly the bytes deflate stored.
C8_EndWithoutWrite ==
    nWrites = 0 =>
        /\ (IsNone /\ cs # "null") => archive = <<>>
        /\ (IsLibz /\ pc = "deflate" /\ produced = <<>>) =>
              /\ flush
              /\ zp.next_out = 0
              /\ zp.avail_out = ZLIB_OUT_SIZE
              /\ archive = <<>>
        /\ (IsLibz /\ Ended) =>
              /\ res = "Z_STREAM_END"
              /\ produced # <<>>
              /\ Flatten(archive) = produced

\* C8 witness: a zlib session with no Write has ended and its terminator went
\* out in two chunks.
C8_Witness ==
    /\ Ended /\ IsLibz /\ nWrites = 0
    /\ Len(archive) = 2
    /\ produced = <<Z_HEADER, Z_TRAILER>>

InvalidHint(h) == h # 0 /\ h \notin 1 .. 9 /\ h # Z_DEFAULT_COMPRESSION

\* C9: AllocateCompressor and ReadDataFromArchive given a hint that is not 0,
\* not in 1..9 and not Z_DEFAULT_COMPRESSION fail with InvalidConfiguration
\* with no callback called, nothing allocated and zlib not initialised.
C9_InvalidHintRejected ==
    /\ InvalidHint(hintW) =>
          /\ pc = "dead" /\ err = "InvalidConfiguration"
          /\ cs = "null" /\ archive = <<>>
          /\ dstate = NoDstate
          /\ \A r \in Resources : allocs[r] = 0
    /\ \A h \in Hints :
          InvalidHint(h) => ParseCompressionOption(h).alg = "invalid"
    /\ alg = "invalid" =>
          /\ pc = "dead" /\ err = "InvalidConfiguration"
          /\ nRead = 0 /\ sink = <<>>
          /\ istate = NoIstate
          /\ \A r \in ReadResources : allocs[r] = 0

\* C9 witness: ReadDataFromArchive was given a hint that selects no algorithm
\* after a session that wrote an archive.
C9_Witness ==
    /\ alg = "invalid" /\ pc = "dead" /\ archive # <<>>

\* C10: hints 1..9 and Z_DEFAULT_COMPRESSION select zlib with level = hint,
\* hint 0 selects none with level 0, and the session's algorithm is the
\* selected one at every later Write and End.
C10_SelectorAndFixedAlgorithm ==
    cs # "null" =>
        /\ (hintW \in 1 .. 9 \/ hintW = Z_DEFAULT_COMPRESSION) =>
              /\ IsLibz /\ level = hintW
              /\ dstate.status # "none" => dstate.level = hintW
        /\ hintW = 0 => (IsNone /\ level = 0)

\* C10 witness: a session created with Z_DEFAULT_COMPRESSION has ended after
\* two Writes.
C10_Witness ==
    /\ Ended /\ hintW = Z_DEFAULT_COMPRESSION /\ IsLibz /\ nWrites = MaxWrites

\* The read call took the no-compression path, or zlib's.
ReadsNone == alg = "COMPR_ALG_NONE"

ReadsLibz == alg = "COMPR_ALG_LIBZ"

\* The chunks in front of the first chunk of no bytes.
RECURSIVE Leading(_)
Leading(chunks) ==
    IF chunks = <<>> \/ Head(chunks) = <<>>
    THEN <<>>
    ELSE <<Head(chunks)>> \o Leading(Tail(chunks))

\* The bytes readF delivers before it reports the end.
Payload == Flatten(Leading(archive))

IsPrefix(s, t) == Len(s) <= Len(t) /\ s = Take(t, Len(s))

\* C11: ReadDataFromArchiveNone has passed to ahwrite, unchanged and in
\* order, exactly the chunks in front of the first chunk of no bytes it was
\* given, all of them once it has returned; it returns on that chunk and
\* readF and ahwrite are not called after it.
C11_NoneForwardsVerbatim ==
    (ReadsNone /\ pc # "dead") =>
        LET n == IF rdone THEN nRead - 1 ELSE nRead
        IN  /\ n \in 0 .. Len(Leading(archive))
            /\ sink = Flatten(SubSeq(archive, 1, n))
            /\ rdone => /\ n = Len(Leading(archive))
                        /\ sink = Payload
                        /\ pc = "idle"

\* A read without compression has returned on a chunk of no bytes that has
\* a chunk of some bytes on either side.
C11_Witness ==
    /\ ReadsNone /\ rdone
    /\ Len(archive) = 3
    /\ Len(archive[1]) = 2 /\ archive[2] = <<>> /\ archive[3] # <<>>
    /\ nRead = 2
    /\ sink = archive[1]

\* C12: while ReadDataFromArchiveZlib runs, and when it has returned, ahwrite
\* has been given exactly the bytes inflate stored, in the order it stored
\* them; and it returns only after inflate answered Z_STREAM_END.
C12_ForwardsAllInflated ==
    (ReadsLibz /\ pc # "dead") =>
        /\ sink = iproduced
        /\ rdone => rres = "Z_STREAM_END"

\* A zlib read of several chunks has returned after inflate stored as many
\* bytes as the out buffer holds.
C12_Witness ==
    /\ ReadsLibz /\ rdone
    /\ Len(archive) >= 2
    /\ Len(iproduced) >= ZLIB_OUT_SIZE
    /\ rres = "Z_STREAM_END"

\* inflate given the whole payload at once, with room for all of it.
OneGo == Scan("head", Payload, 0, <<>>)

\* The payload is one complete compressed stream and nothing else.
WellFormed == OneGo.mode = "done" /\ OneGo.used = Len(Payload)

\* C13: for a payload that is one compressed stream, ahwrite receives a
\* prefix of what the payload decompresses to in one go, all of it once
\* ReadDataFromArchiveZlib has returned, and inflate reports no error but
\* those that do not come from the payload: whatever chunks readF delivers
\* the payload in.
C13_ChunkingInvariant ==
    (ReadsLibz /\ WellFormed) =>
        /\ err = "CodecError" => rres \in inflateFaults
        /\ IsPrefix(sink, OneGo.plain)
        /\ rdone => sink = OneGo.plain

\* A stream of one data byte read in chunks of one byte each.
C13_Witness ==
    /\ ReadsLibz /\ rdone /\ WellFormed
    /\ Len(archive) = 3
    /\ \A i \in 1 .. 3 : Len(archive[i]) = 1
    /\ Len(sink) = 1

\* A hint that selects zlib.
LibzHint(h) == h = Z_DEFAULT_COMPRESSION \/ h \in 1 .. 9

\* C14: in a build without zlib there is no compressor state for zlib; a
\* call of AllocateCompressor or ReadDataFromArchive with a hint that selects
\* zlib ends the process with UnsupportedAlgorithm, and the call has called
\* none of writeF, readF and ahwrite: after AllocateCompressor nothing was
\* ever written or read, after ReadDataFromArchive nothing was read or
\* forwarded and no inflate state exists.
C14_NoCodecNoFallback ==
    ~haveLibz =>
        /\ cs # "null" => ~IsLibz
        /\ \A h \in Hints :
              LibzHint(h) => ParseCompressionOption(h).alg = "COMPR_ALG_LIBZ"
        /\ LibzHint(hintW) =>
              /\ pc = "dead" /\ err = "UnsupportedAlgorithm"
              /\ cs = "null"
              /\ wres = -1 /\ archive = <<>>
              /\ nRead = 0 /\ sink = <<>>
        /\ ReadsLibz =>
              /\ pc = "dead" /\ err = "UnsupportedAlgorithm"
              /\ nRead = 0 /\ sink = <<>>
              /\ istate = NoIstate

\* AllocateCompressor was given level 5 in a build without zlib.
C14_Witness ==
    /\ ~haveLibz /\ hintW = 5
    /\ pc = "dead" /\ err = "UnsupportedAlgorithm"
    /\ cs = "null"

\* ReadDataFromArchive was given a level in a build without zlib, after a
\* session that wrote an archive.
C14_WitnessRead ==
    /\ ~haveLibz /\ ReadsLibz /\ archive # <<>>
    /\ pc = "dead" /\ err = "UnsupportedAlgorithm"

\* ReadDataFromArchiveZlib is running.
InReadZlib == pc \in {"readZlib", "inflate", "drain", "inflateEnd"}

\* C15: ReadDataFromArchiveZlib, once called, returns or ends the process,
\* whatever the chunks hold.
C15_ReadTerminates == InReadZlib ~> (pc = "dead" \/ rdone)

\* The chunk in hand has bytes left after inflate answered Z_STREAM_END: the
\* loop of line 322 calls inflate again, which takes none of them.
C15_Spinning ==
    /\ pc = "inflate"
    /\ rres = "Z_STREAM_END"
    /\ rzp.avail_in > 0

\* C17: a step of ReadDataFromArchiveZlib on which inflate answers neither
\* Z_OK nor Z_STREAM_END ends the process with CodecError, with nothing
\* passed to ahwrite and readF not called; and the call returns only after
\* inflate answered Z_STREAM_END, so never on a payload that stops short.
C17_InflateErrorIsFatal ==
    [][ /\ rres' \notin {"Z_OK", "Z_STREAM_END"} =>
              /\ pc' = "dead" /\ err' = "CodecError"
              /\ sink' = sink /\ nRead' = nRead
        /\ (ReadsLibz' /\ rdone') =>
              /\ rres' = "Z_STREAM_END"
              /\ OneGo'.mode = "done" ]_vars

\* readF reported the end on its first call, inflate was called in the
\* drain loop, and the process ended with CodecError.
C17_Witness ==
    /\ ReadsLibz /\ archive = <<>>
    /\ nRead = 1
    /\ rres = "Z_BUF_ERROR"
    /\ pc = "dead" /\ err = "CodecError"
    /\ sink = <<>>

\* ReadDataFromArchiveZlib ends in every other case.
ReadTerminatesUnlessSpinning ==
    InReadZlib ~> (pc = "dead" \/ rdone \/ C15_Spinning)

\* C16: where zlib does not refuse for ever to take input or store output,
\* the loop of DeflateCompressorZlib is left, by a return or by the end of
\* the process, in a write and in the final flush; and deflate answers
\* Z_STREAM_END only in the final flush.
C16_DeflateLoopEnds ==
    /\ (pc = "deflate") ~> (pc # "deflate")
    /\ [](res = "Z_STREAM_END" => flush)

\* EndCompressor has returned after two writes and Z_STREAM_END.
C16_Witness ==
    /\ Ended /\ IsLibz
    /\ nWrites = MaxWrites /\ Len(src) > ZLIB_OUT_SIZE
    /\ res = "Z_STREAM_END"

\* C18: the chunk DeflateCompressorZlib gives writeF is as long as the part
\* of zlibOut deflate has filled, ZLIB_OUT_SIZE minus what is free, and no
\* longer than ZLIB_OUT_SIZE; after it zlibOut is empty again; so deflate
\* output of more than ZLIB_OUT_SIZE bytes reaches writeF in two calls or
\* more.
C18_FlushLengthAndReset ==
    [][ /\ (IsLibz /\ archive' # archive) =>
              LET stored == Len(produced') - Len(produced)
                  free == zp.avail_out - stored
                  chunk == archive'[Len(archive')]
              IN  /\ Len(archive') = Len(archive) + 1
                  /\ Len(chunk) = ZLIB_OUT_SIZE - free
                  /\ Len(chunk) <= ZLIB_OUT_SIZE
                  /\ pc' # "dead" =>
                        zp'.next_out = 0 /\ zp'.avail_out = ZLIB_OUT_SIZE
        /\ (IsLibz' /\ Ended' /\ Len(produced') > ZLIB_OUT_SIZE) =>
              Len(archive') >= 2 ]_vars

\* A session has ended whose deflate output, longer than ZLIB_OUT_SIZE, went
\* to writeF as a full buffer and a rest.
C18_Witness ==
    /\ IsLibz /\ Ended
    /\ Len(produced) > ZLIB_OUT_SIZE
    /\ Len(archive) = 2
    /\ Len(archive[1]) = ZLIB_OUT_SIZE

\* C19: without compression a WriteDataToArchive call gives writeF its data,
\* once, and returns the length of the data; no other call gives writeF
\* anything, EndCompressor included.
C19_NoneWritesVerbatim ==
    [][ IsNone =>
          IF nWrites' # nWrites
          THEN LET data == Drop(src', Len(src))
               IN  /\ archive' = Append(archive, data)
                   /\ dLen' = Len(data)
                   /\ pc' # "dead" => ret' = Len(data)
          ELSE archive' = archive ]_vars

\* A session without compression has ended after two writes of different
\* data.
C19_Witness ==
    /\ IsNone /\ Ended
    /\ nWrites = 2
    /\ archive = <<<<0, 1>>, <<1>>>>
    /\ src = <<0, 1, 1>>
    /\ ret = 1

\* C20: from AllocateCompressor to EndCompressor, whenever deflate is about
\* to be called and whenever a write has returned, zlibOut has a free byte,
\* and next_out and avail_out agree.
C20_AlwaysRoomToCompress ==
    (IsLibz /\ cs = "live" /\ pc \in {"idle", "deflate"}) =>
        /\ zp.avail_out \in 1 .. ZLIB_OUT_SIZE
        /\ zp.next_out = ZLIB_OUT_SIZE - zp.avail_out

\* A write is under way, deflate has filled zlibOut, the buffer went to
\* writeF and is empty again, and deflate is about to be called.
C20_Witness ==
    /\ IsLibz /\ cs = "live" /\ pc = "deflate" /\ ~flush
    /\ archive # <<>>
    /\ Len(archive[Len(archive)]) = ZLIB_OUT_SIZE
    /\ zp.avail_out = ZLIB_OUT_SIZE
    /\ zp.avail_in > 0

Spec == Init /\ [][Next]_vars

====
